---- MODULE Spec2Model ----
(***************************************************************************)
(* Model of src/main.py: the /ws WebSocket handler that relays a client    *)
(* connection to a Gemini Live session and stores "memories" in MongoDB.   *)
(*                                                                         *)
(* One step of the model is the code that runs between two suspension      *)
(* points of the asyncio event loop.  The calls that really suspend are    *)
(* websocket.receive_text, websocket.send_json, session.send, the upstream *)
(* iterator and client.aio.live.connect.  save_memory and load_memories    *)
(* are "async def" but call pymongo synchronously, so they never yield.    *)
(***************************************************************************)
EXTENDS Integers, Sequences, FiniteSets, TLC

(***************************************************************************)
(* Bounds of the model                                                     *)
(***************************************************************************)
MaxConns == 2
MaxFrames == 2
MaxResponses == 2
MaxWords == 3
MaxStored == 12

(***************************************************************************)
(* Python string primitives, on TLA+ strings                               *)
(***************************************************************************)
UpperChars == "ABCDEFGHIJKLMNOPQRSTUVWXYZ"
LowerChars == "abcdefghijklmnopqrstuvwxyz"

CharAt(s, i) == SubSeq(s, i, i)

\* str.lower() of one character
LowerChar(c) ==
    IF \E i \in 1..26 : CharAt(UpperChars, i) = c
    THEN CharAt(LowerChars, CHOOSE i \in 1..26 : CharAt(UpperChars, i) = c)
    ELSE c

RECURSIVE lower(_)
\* str.lower()
lower(s) == IF Len(s) = 0 THEN "" ELSE LowerChar(CharAt(s, 1)) \o lower(Tail(s))

\* the positions at which k occurs in s
Occurrences(s, k) == { i \in 1..(Len(s) - Len(k) + 1) : SubSeq(s, i, i + Len(k) - 1) = k }

\* Python's "k in s" on strings
InStr(k, s) == Occurrences(s, k) # {}

\* str.split(k, 1): one part when k does not occur, else the text before and
\* after the first occurrence
split1(s, k) ==
    IF Occurrences(s, k) = {} THEN << s >>
    ELSE LET i == CHOOSE j \in Occurrences(s, k) : \A l \in Occurrences(s, k) : j <= l
         IN  << SubSeq(s, 1, i - 1), SubSeq(s, i + Len(k), Len(s)) >>

IsSpace(c) == c \in {" ", "\n", "\t", "\r"}

RECURSIVE lstrip(_)
lstrip(s) == IF Len(s) > 0 /\ IsSpace(CharAt(s, 1)) THEN lstrip(Tail(s)) ELSE s

RECURSIVE rstrip(_)
rstrip(s) == IF Len(s) > 0 /\ IsSpace(CharAt(s, Len(s)))
             THEN rstrip(SubSeq(s, 1, Len(s) - 1)) ELSE s

\* str.strip()
strip(s) == rstrip(lstrip(s))

\* str.startswith(p)
startswith(s, p) == Len(s) >= Len(p) /\ SubSeq(s, 1, Len(p)) = p

\* s[n:]
DropChars(s, n) == SubSeq(s, n + 1, Len(s))

RECURSIVE join(_, _)
\* sep.join(parts)
join(sep, parts) ==
    IF Len(parts) = 0 THEN ""
    ELSE IF Len(parts) = 1 THEN parts[1]
    ELSE parts[1] \o sep \o join(sep, Tail(parts))

\* the first n elements of a sequence: seq[:n]
Take(seq, n) == SubSeq(seq, 1, IF Len(seq) < n THEN Len(seq) ELSE n)

RECURSIVE SelectRecs(_, _)
\* the records of seq whose session_id is sid, in the order of seq
SelectRecs(seq, sid) ==
    IF Len(seq) = 0 THEN << >>
    ELSE (IF Head(seq).session_id = sid THEN << Head(seq) >> ELSE << >>)
         \o SelectRecs(Tail(seq), sid)

(***************************************************************************)
(* Configuration (module globals of main.py)                               *)
(***************************************************************************)
MODEL == "gemini-2.5-flash-native-audio-preview-12-2025"

BaseInstruction == "You are a helpful and friendly AI assistant."

DEFAULT_CONFIG_Init ==
    [ response_modalities |-> << "AUDIO" >>,
      system_instruction  |-> BaseInstruction,
      tools               |-> << "google_search" >> ]

\* default of load_memories' parameter "limit"
LoadLimit == 10

\* memories[:5]
ContextLimit == 5

(***************************************************************************)
(* Memory functions.  The collection is a sequence of documents in         *)
(* insertion order.  ObjectId() is a fresh number, str() of it ToString;   *)
(* datetime.utcnow() is a logical time that grows with every insert.       *)
(***************************************************************************)
utcnow(collection) == Len(collection) + 1

isoformat(t) == "T" \o ToString(t)

memory_doc(session_id, memory_text, context, now) ==
    [ session_id  |-> session_id,
      memory_text |-> memory_text,
      context     |-> context,
      created_at  |-> now,
      updated_at  |-> now ]

\* memory_collection.insert_one(doc): the stored document gets a generated _id
insert_one(collection, doc, oid) ==
    Append(collection,
           [ id          |-> oid,
             session_id  |-> doc.session_id,
             memory_text |-> doc.memory_text,
             context     |-> doc.context,
             created_at  |-> doc.created_at,
             updated_at  |-> doc.updated_at ])

SaveSuccessResult(memory_text, oid) ==
    [ success   |-> TRUE,
      message   |-> "I've remembered: '" \o memory_text \o "'",
      memory_id |-> ToString(oid) ]

SaveFailureResult ==
    [ success |-> FALSE,
      message |-> "Sorry, I couldn't save that memory" ]

\* save_memory without its try/except: the exception of insert_one leaves it
save_memory_Propagates(collection, oid, session_id, memory_text, context, insert_ok) ==
    IF insert_ok
    THEN [ collection |-> insert_one(collection,
                                     memory_doc(session_id, memory_text, context,
                                                utcnow(collection)),
                                     oid),
           result     |-> SaveSuccessResult(memory_text, oid),
           raised     |-> FALSE ]
    ELSE [ collection |-> collection,
           result     |-> SaveFailureResult,
           raised     |-> TRUE ]

\* save_memory: insert_ok = FALSE is insert_one raising.  The value is the
\* collection afterwards, the returned dict and whether an exception leaves
\* the function.
save_memory(collection, oid, session_id, memory_text, context, insert_ok) ==
    IF insert_ok
    THEN [ collection |-> insert_one(collection,
                                     memory_doc(session_id, memory_text, context,
                                                utcnow(collection)),
                                     oid),
           result     |-> SaveSuccessResult(memory_text, oid),
           raised     |-> FALSE ]
    ELSE [ collection |-> collection,
           result     |-> SaveFailureResult,
           raised     |-> FALSE ]

RECURSIVE sort_created_desc(_)
\* .sort("created_at", -1): repeatedly take the document with the largest
\* created_at
sort_created_desc(docs) ==
    IF Len(docs) = 0 THEN << >>
    ELSE LET m == CHOOSE i \in 1..Len(docs) :
                     \A j \in 1..Len(docs) : docs[j].created_at <= docs[i].created_at
             rest == SubSeq(docs, 1, m - 1) \o SubSeq(docs, m + 1, Len(docs))
         IN  << docs[m] >> \o sort_created_desc(rest)

\* the conversion loop of load_memories: ObjectId and datetimes to strings
LoadedMemory(doc) ==
    [ id          |-> ToString(doc.id),
      session_id  |-> doc.session_id,
      memory_text |-> doc.memory_text,
      context     |-> doc.context,
      created_at  |-> isoformat(doc.created_at),
      updated_at  |-> isoformat(doc.updated_at) ]

\* load_memories: find_ok = FALSE is the query raising.  The value is the
\* returned list and whether an exception leaves the function.
load_memories(collection, session_id, limit, find_ok) ==
    IF find_ok
    THEN LET found == Take(sort_created_desc(SelectRecs(collection, session_id)), limit)
         IN  [ memories |-> [ i \in 1..Len(found) |-> LoadedMemory(found[i]) ],
               raised   |-> FALSE ]
    ELSE [ memories |-> << >>, raised |-> FALSE ]

(***************************************************************************)
(* process_memory_request                                                  *)
(***************************************************************************)
memory_keywords ==
    << "remember", "memorize", "save", "store", "keep in mind", "don't forget" >>

\* any(keyword in text_lower for keyword in memory_keywords)
is_memory_request(text) ==
    LET text_lower == lower(text)
    IN  \E i \in 1..Len(memory_keywords) : InStr(memory_keywords[i], text_lower)

\* the three startswith tests applied to the text after the keyword
StripConnectors(m0) ==
    LET m1 == IF startswith(lower(m0), "that") THEN strip(DropChars(m0, 4)) ELSE m0
        m2 == IF startswith(lower(m1), "this") THEN strip(DropChars(m1, 4)) ELSE m1
        m3 == IF startswith(lower(m2), "to")   THEN strip(DropChars(m2, 2)) ELSE m2
    IN  m3

\* the for loop over memory_keywords: only the first keyword found in
\* text_lower is tried (break), and it is split out of the original text
extract_memory_text(text) ==
    LET text_lower == lower(text)
        hits  == { i \in 1..Len(memory_keywords) : InStr(memory_keywords[i], text_lower) }
        k     == CHOOSE i \in hits : \A j \in hits : i <= j
        parts == split1(text, memory_keywords[k])
    IN  IF hits = {} THEN text
        ELSE IF Len(parts) > 1 THEN StripConnectors(strip(parts[2]))
        ELSE text

\* The texts the client sends in this model
Texts == { "hello", "remember that tea" }

\* The words the texts given to the classifier alone are made of
Words == << "remember", "Remember", "store", "that", "this", "to", "today", "tea" >>

RECURSIVE WordSeqs(_)
\* the sequences of exactly n words
WordSeqs(n) ==
    IF n = 0 THEN { << >> }
    ELSE { Append(ws, Words[i]) : ws \in WordSeqs(n - 1), i \in 1..Len(Words) }

\* the texts of one to MaxWords words, separated by one space
ClassifierTexts ==
    { join(" ", ws) : ws \in UNION { WordSeqs(n) : n \in 1..MaxWords } }

\* The data of the media frames of this model: base64 text, in which the
\* letters of a keyword can occur
MediaData == { "AAAAsave" }

\* lines 106-126 for each string of the model, evaluated once
ClassifiedTexts ==
    [ t \in Texts \cup ClassifierTexts \cup MediaData |->
        [ is_memory   |-> is_memory_request(t),
          memory_text |-> extract_memory_text(t) ] ]

\* is_memory_request and extract_memory_text of a text of the model
Classify(text) == ClassifiedTexts[text]

\* session.send(input=<str>, end_of_turn=True)
TextTurn(input) == [ kind |-> "text", input |-> input, end_of_turn |-> TRUE ]

\* session.send(input=<dict>): end_of_turn keeps its default.  The dict is
\* held in a field of its own, a str input and a dict input being values
\* of different types.
RealtimeInput(data) == [ kind |-> "realtime", media |-> data, end_of_turn |-> FALSE ]

\* the message process_memory_request sends after the save
ConfirmationSends(result) ==
    << TextTurn("Memory saved successfully! " \o result.message) >>

\* process_memory_request up to its first suspension: the save calls made,
\* the collection afterwards, the sends it is about to await, the returned
\* pair, and whether an exception of save_memory passes through it
process_memory_request(collection, oid, session_id, text, insert_ok) ==
    IF Classify(text).is_memory
    THEN LET memory_text == Classify(text).memory_text
             saved       == save_memory(collection, oid, session_id, memory_text,
                                        text, insert_ok)
         IN  [ is_memory   |-> TRUE,
               raised      |-> saved.raised,
               memory_text |-> << memory_text >>,
               collection  |-> saved.collection,
               saves       |-> << [ session_id  |-> session_id,
                                    memory_text |-> memory_text,
                                    context     |-> text,
                                    result      |-> saved.result ] >>,
               sends       |-> IF saved.raised THEN << >>
                               ELSE ConfirmationSends(saved.result) ]
    ELSE [ is_memory   |-> FALSE,
           raised      |-> FALSE,
           memory_text |-> << >>,
           collection  |-> collection,
           saves       |-> << >>,
           sends       |-> << >> ]

\* ForwardText without the "if not is_memory" test
ForwardTextAlways(is_memory, user_text) == << TextTurn(user_text) >>

\* ForwardText with end_of_turn left at its default
ForwardTextNoEndOfTurn(is_memory, user_text) ==
    IF ~is_memory
    THEN << [ kind |-> "text", input |-> user_text, end_of_turn |-> FALSE ] >>
    ELSE << >>

\* receive_from_client, lines 198-200: the text itself goes upstream only
\* when it was not a memory request
ForwardText(is_memory, user_text) ==
    IF ~is_memory THEN << TextTurn(user_text) >> ELSE << >>

(***************************************************************************)
(* websocket_endpoint: context and greeting                                *)
(***************************************************************************)
\* BuildConfig without the [:5] of line 157
BuildConfig_AllMemories(default_config, memories) ==
    IF Len(memories) > 0
    THEN LET memory_texts   == [ i \in 1..Len(memories) |-> "- " \o memories[i].memory_text ]
             memory_context == "Here are things I should remember:\n"
                               \o join("\n", memory_texts)
         IN  [ default_config EXCEPT
                 !.system_instruction =
                     default_config.system_instruction \o "\n\n" \o memory_context ]
    ELSE default_config

\* lines 155-159: the configuration the upstream session is opened with
BuildConfig(default_config, memories) ==
    IF Len(memories) > 0
    THEN LET shown          == Take(memories, ContextLimit)
             memory_texts   == [ i \in 1..Len(shown) |-> "- " \o shown[i].memory_text ]
             memory_context == "Here are things I should remember:\n"
                               \o join("\n", memory_texts)
         IN  [ default_config EXCEPT
                 !.system_instruction =
                     default_config.system_instruction \o "\n\n" \o memory_context ]
    ELSE default_config

\* a session id that does not come from a new ObjectId
new_session_id_Fixed(oid) == "session"

\* line 148: str(ObjectId()), a value no earlier ObjectId() has given
new_session_id(oid) == ToString(oid)

\* lines 155-159, what they do to the module-level dict: config is
\* DEFAULT_CONFIG.copy(), a dict of its own, so the assignment of line 159
\* does not reach DEFAULT_CONFIG
DefaultConfigAfter(default_config, memories) == default_config

\* Greeting without the test of line 170
Greeting_AlwaysGeneric(memories) ==
    TextTurn("Hello! I'm ready to help. You can ask me to remember things by saying something like 'Remember that I like coffee'.")

\* lines 170-180
Greeting(memories) ==
    IF Len(memories) > 0
    THEN TextTurn("Hello! I have " \o ToString(Len(memories))
                  \o " memories loaded from our previous conversations. How can I help you today?")
    ELSE TextTurn("Hello! I'm ready to help. You can ask me to remember things by saying something like 'Remember that I like coffee'.")

(***************************************************************************)
(* receive_from_client: one message, from receive_text returning to the    *)
(* first session.send it awaits.  A message is the text of a frame: either *)
(* not JSON at all, or JSON for an object (a record here, its keys the     *)
(* record's fields).                                                       *)
(***************************************************************************)
\* json.loads
json_loads(message) ==
    IF message.json = "invalid" THEN [ raised |-> TRUE ]
    ELSE [ raised |-> FALSE, value |-> message.value ]

\* "key in data"
HasKey(data, key) == key \in DOMAIN data.value

\* handle_message with a decode step that rejects a frame of neither shape
handle_message_StrictShape(collection, oid, session_id, message, insert_ok) ==
    LET data == json_loads(message)
        none == [ raised |-> FALSE, collection |-> collection,
                  saves |-> << >>, sends |-> << >> ]
    IN  IF data.raised
        THEN [ none EXCEPT !.raised = TRUE ]
        ELSE IF HasKey(data, "text")
        THEN LET user_text == data.value.text
                 p == process_memory_request(collection, oid, session_id,
                                             user_text, insert_ok)
             IN  [ raised     |-> p.raised,
                   collection |-> p.collection,
                   saves      |-> p.saves,
                   sends      |-> p.sends \o ForwardText(p.is_memory, user_text) ]
        ELSE IF HasKey(data, "data") /\ HasKey(data, "mime_type")
        THEN [ none EXCEPT !.sends = << RealtimeInput(data.value) >> ]
        ELSE [ none EXCEPT !.raised = TRUE ]

\* handle_message with the data of a media frame given to
\* process_memory_request as if it were text
handle_message_ClassifiesMedia(collection, oid, session_id, message, insert_ok) ==
    LET data == json_loads(message)
        none == [ raised |-> FALSE, collection |-> collection,
                  saves |-> << >>, sends |-> << >> ]
    IN  IF data.raised
        THEN [ none EXCEPT !.raised = TRUE ]
        ELSE IF HasKey(data, "text")
        THEN LET user_text == data.value.text
                 p == process_memory_request(collection, oid, session_id,
                                             user_text, insert_ok)
             IN  [ raised     |-> p.raised,
                   collection |-> p.collection,
                   saves      |-> p.saves,
                   sends      |-> IF p.raised THEN << >>
                                  ELSE p.sends \o ForwardText(p.is_memory, user_text) ]
        ELSE IF HasKey(data, "data") /\ HasKey(data, "mime_type")
        THEN LET p == process_memory_request(collection, oid, session_id,
                                             data.value.data, insert_ok)
             IN  [ raised     |-> p.raised,
                   collection |-> p.collection,
                   saves      |-> p.saves,
                   sends      |-> IF p.is_memory THEN p.sends
                                  ELSE << RealtimeInput(data.value) >> ]
        ELSE none

\* lines 187-206: what one message does before the relay suspends again
handle_message(collection, oid, session_id, message, insert_ok) ==
    LET data == json_loads(message)
        none == [ raised |-> FALSE, collection |-> collection,
                  saves |-> << >>, sends |-> << >> ]
    IN  IF data.raised
        THEN [ none EXCEPT !.raised = TRUE ]
        ELSE IF HasKey(data, "text")
        THEN LET user_text == data.value.text
                 p == process_memory_request(collection, oid, session_id,
                                             user_text, insert_ok)
             IN  [ raised     |-> p.raised,
                   collection |-> p.collection,
                   saves      |-> p.saves,
                   sends      |-> IF p.raised THEN << >>
                                  ELSE p.sends \o ForwardText(p.is_memory, user_text) ]
        ELSE IF HasKey(data, "data") /\ HasKey(data, "mime_type")
        THEN [ none EXCEPT !.sends = << RealtimeInput(data.value) >> ]
        ELSE none

(***************************************************************************)
(* send_to_client: the frames one upstream response produces               *)
(***************************************************************************)
B64Alphabet == "ABCDEFGHIJKLMNOPQRSTUVWXYZabcdefghijklmnopqrstuvwxyz0123456789+/"

B64Char(n) == CharAt(B64Alphabet, n + 1)

RECURSIVE b64encode(_)
\* base64.b64encode(bytes).decode('utf-8')
b64encode(b) ==
    IF Len(b) = 0 THEN ""
    ELSE IF Len(b) = 1
    THEN B64Char(b[1] \div 4) \o B64Char((b[1] % 4) * 16) \o "=="
    ELSE IF Len(b) = 2
    THEN B64Char(b[1] \div 4) \o B64Char((b[1] % 4) * 16 + b[2] \div 16)
         \o B64Char((b[2] % 16) * 4) \o "="
    ELSE B64Char(b[1] \div 4) \o B64Char((b[1] % 4) * 16 + b[2] \div 16)
         \o B64Char((b[2] % 16) * 4 + b[3] \div 64) \o B64Char(b[3] % 64)
         \o b64encode(SubSeq(b, 4, Len(b)))

AudioFrame(data) == [ audio |-> b64encode(data) ]

TextFrame(text) == [ text |-> text ]

InterruptedFrame == [ interrupted |-> TRUE ]

\* lines 221-233: a part is [inline_data, data, text]; None and empty are
\* both falsy
PartFrames(part) ==
    (IF part.inline_data /\ Len(part.data) > 0 THEN << AudioFrame(part.data) >> ELSE << >>)
    \o (IF Len(part.text) > 0 THEN << TextFrame(part.text) >> ELSE << >>)

RECURSIVE PartsFramesReversed(_)
\* the parts taken last to first
PartsFramesReversed(parts) ==
    IF Len(parts) = 0 THEN << >>
    ELSE PartsFramesReversed(Tail(parts)) \o PartFrames(Head(parts))

RECURSIVE PartsFrames(_)
\* the for loop over model_turn.parts
PartsFrames(parts) ==
    IF Len(parts) = 0 THEN << >>
    ELSE PartFrames(Head(parts)) \o PartsFrames(Tail(parts))

\* the interrupted test placed before the loop over the parts
ResponseFramesInterruptedFirst(response) ==
    (IF response.server_content /\ response.interrupted
     THEN << InterruptedFrame >> ELSE << >>)
    \o (IF response.server_content /\ response.model_turn
        THEN PartsFrames(response.parts) ELSE << >>)

\* lines 219-236: part frames first, then the interrupted frame
ResponseFrames(response) ==
    (IF response.server_content /\ response.model_turn
     THEN PartsFrames(response.parts) ELSE << >>)
    \o (IF response.server_content /\ response.interrupted
        THEN << InterruptedFrame >> ELSE << >>)

(***************************************************************************)
(* Inputs of the environment                                               *)
(***************************************************************************)
Messages ==
    { [ json |-> "invalid" ],
      [ json |-> "object", value |-> [ type |-> "ping" ] ] }
    \cup { [ json |-> "object", value |-> [ data |-> d, mime_type |-> "audio/pcm" ] ] :
             d \in MediaData }
    \cup { [ json |-> "object", value |-> [ text |-> t ] ] : t \in Texts }

Responses ==
    { [ server_content |-> TRUE, model_turn |-> TRUE, interrupted |-> FALSE,
        parts |-> << [ inline_data |-> TRUE, data |-> << 77 >>, text |-> "" ] >> ],
      [ server_content |-> TRUE, model_turn |-> TRUE, interrupted |-> TRUE,
        parts |-> << [ inline_data |-> FALSE, data |-> << >>, text |-> "hi" ],
                     [ inline_data |-> TRUE, data |-> << 1, 2, 3 >>, text |-> "" ] >> ],
      [ server_content |-> TRUE, model_turn |-> FALSE, interrupted |-> TRUE,
        parts |-> << >> ] }

(***************************************************************************)
(* State                                                                   *)
(***************************************************************************)
VARIABLES
    memory_collection,  \* the documents of the MongoDB collection
    next_oid,           \* the next ObjectId
    DEFAULT_CONFIG,     \* the module-level dict
    conn,               \* connections accepted so far
    hPc,                \* where websocket_endpoint is
    session_id,         \* of the current connection
    memories,           \* loaded at its start
    config,             \* the configuration passed to connect
    sessionState,       \* upstream session: "none", "open", "closed"
    wsState,            \* client websocket as the handler left it: "none", "open", "closed"
    clientGone,         \* the client has disconnected
    upstreamDown,       \* the upstream session has failed
    inPc,               \* receive_from_client: "idle", "recv", "save", "send", "done"
    inQueue,            \* the session.send calls it still has to await for this message
    inExit,             \* how it ended: "", "disconnect", "error"
    outPc,              \* send_to_client: "idle", "recv", "emit", "done"
    outQueue,           \* the send_json calls it still has to await for this response
    outExit,            \* how it ended: "", "upstream" (read raised), "client" (write raised)
    upSent,             \* everything sent into the upstream session, in order
    toClient,           \* every frame written to the client, in order
    loadOk,             \* history: whether the store answered load_memories
    inLog,              \* history: the messages received from the client
    lastSaves,          \* history: the save_memory calls made for the last message
    lastSent,           \* history: the upstream sends completed for the last message
    outLog,             \* history: the responses read from upstream
    outEmitted,         \* history: the frames written for the last response
    nMsgs,              \* history: messages received over all connections
    nResps              \* history: responses read over all connections

vars == << memory_collection, next_oid, DEFAULT_CONFIG, conn, hPc, session_id,
           memories, config, sessionState, wsState, clientGone, upstreamDown,
           inPc, inQueue, inExit, outPc, outQueue, outExit, upSent, toClient,
           loadOk, inLog, lastSaves, lastSent, outLog, outEmitted, nMsgs, nResps >>

globalVars == << memory_collection, next_oid, DEFAULT_CONFIG, conn >>
handlerVars == << hPc, session_id, memories, config, sessionState, wsState, loadOk >>
envVars == << clientGone, upstreamDown >>
inVars == << inPc, inQueue, inExit, inLog, lastSaves, lastSent, nMsgs >>
outVars == << outPc, outQueue, outExit, toClient, outLog, outEmitted, nResps >>

Init ==
    /\ memory_collection = << >>
    /\ next_oid = 1
    /\ DEFAULT_CONFIG = DEFAULT_CONFIG_Init
    /\ conn = 0
    /\ hPc = "idle"
    /\ session_id = ""
    /\ memories = << >>
    /\ config = DEFAULT_CONFIG_Init
    /\ sessionState = "none"
    /\ wsState = "none"
    /\ clientGone = FALSE
    /\ upstreamDown = FALSE
    /\ inPc = "idle"
    /\ inQueue = << >>
    /\ inExit = ""
    /\ outPc = "idle"
    /\ outQueue = << >>
    /\ outExit = ""
    /\ loadOk = TRUE
    /\ upSent = << >>
    /\ toClient = << >>
    /\ inLog = << >>
    /\ lastSaves = << >>
    /\ lastSent = << >>
    /\ outLog = << >>
    /\ outEmitted = << >>
    /\ nMsgs = 0
    /\ nResps = 0

(***************************************************************************)
(* websocket_endpoint                                                      *)
(***************************************************************************)
\* the except clause without its websocket.close()
ExceptNoClose ==
    /\ hPc' = "closed"
    /\ UNCHANGED wsState

\* lines 244-246: the except clause of the handler
ExceptClose ==
    /\ wsState' = "closed"
    /\ hPc' = "closed"

\* lines 144-160 with sid the new session id: accept, load_memories, build
\* the config; the handler then awaits connect
StartConnection(sid, find_ok) ==
    /\ hPc \in { "idle", "returned", "closed" }
    /\ conn < MaxConns
    /\ conn' = conn + 1
    /\ session_id' = sid
    /\ next_oid' = next_oid + 1
    /\ loadOk' = find_ok
    /\ LET loaded == load_memories(memory_collection, session_id', LoadLimit, find_ok)
       IN  IF loaded.raised
           THEN /\ ExceptClose
                /\ UNCHANGED << memories, config >>
           ELSE /\ memories' = loaded.memories
                /\ config' = BuildConfig(DEFAULT_CONFIG, memories')
                /\ hPc' = "connect"
                /\ wsState' = "open"
    /\ sessionState' = "none"
    /\ clientGone' = FALSE
    /\ upstreamDown' = FALSE
    /\ inPc' = "idle" /\ inQueue' = << >> /\ inExit' = ""
    /\ outPc' = "idle" /\ outQueue' = << >> /\ outExit' = ""
    /\ upSent' = << >> /\ toClient' = << >>
    /\ inLog' = << >> /\ lastSaves' = << >> /\ lastSent' = << >>
    /\ outLog' = << >> /\ outEmitted' = << >>
    /\ DEFAULT_CONFIG' = DefaultConfigAfter(DEFAULT_CONFIG, memories')
    /\ UNCHANGED << memory_collection, nMsgs, nResps >>

\* lines 144-160: the session id is a fresh ObjectId
Accept(find_ok) == StartConnection(new_session_id(next_oid), find_ok)

\* lines 163-166: client.aio.live.connect returns a session or raises
Connect(ok) ==
    /\ hPc = "connect"
    /\ IF ok
       THEN /\ sessionState' = "open"
            /\ hPc' = "greet"
            /\ UNCHANGED wsState
       ELSE /\ ExceptClose
            /\ UNCHANGED sessionState
    /\ UNCHANGED << globalVars, session_id, memories, config, loadOk, envVars,
                    inVars, outVars, upSent >>

\* lines 170-242: the greeting is sent, then gather starts both relays, which
\* run up to their first receive
Greet ==
    /\ hPc = "greet"
    /\ IF ~upstreamDown
       THEN /\ upSent' = Append(upSent, Greeting(memories))
            /\ hPc' = "gather"
            /\ inPc' = "recv"
            /\ outPc' = "recv"
            /\ UNCHANGED << sessionState, wsState >>
       ELSE /\ sessionState' = "closed"
            /\ ExceptClose
            /\ UNCHANGED << upSent, inPc, outPc >>
    /\ UNCHANGED << globalVars, session_id, memories, config, loadOk, envVars,
                    inQueue, inExit, inLog, lastSaves, lastSent, nMsgs,
                    outQueue, outExit, toClient, outLog, outEmitted, nResps >>

\* lines 242-246: gather returns once both relays have returned; the session's
\* context manager exits, and only if that raises is the websocket closed
SessionExit(ok) ==
    /\ hPc = "gather"
    /\ inPc = "done"
    /\ outPc = "done"
    /\ sessionState' = "closed"
    /\ IF ok
       THEN hPc' = "returned" /\ UNCHANGED wsState
       ELSE ExceptClose
    /\ UNCHANGED << globalVars, session_id, memories, config, loadOk, envVars,
                    inVars, outVars, upSent >>

(***************************************************************************)
(* The environment: the client and the upstream service                    *)
(***************************************************************************)
ClientGoes ==
    /\ hPc \in { "connect", "greet", "gather" }
    /\ ~clientGone
    /\ clientGone' = TRUE
    /\ UNCHANGED << globalVars, handlerVars, upstreamDown, inVars, outVars, upSent >>

UpstreamFails ==
    /\ sessionState = "open"
    /\ ~upstreamDown
    /\ upstreamDown' = TRUE
    /\ UNCHANGED << globalVars, handlerVars, clientGone, inVars, outVars, upSent >>

(***************************************************************************)
(* receive_from_client                                                     *)
(***************************************************************************)
\* lines 186-206: receive_text returns a message
InboundMessage(message, insert_ok) ==
    /\ hPc = "gather"
    /\ inPc = "recv"
    /\ ~clientGone
    /\ nMsgs < MaxFrames
    /\ nMsgs' = nMsgs + 1
    /\ \E h \in { handle_message(memory_collection, next_oid, session_id,
                                  message, insert_ok) } :
           /\ memory_collection' = h.collection
           /\ next_oid' = IF Len(h.collection) > Len(memory_collection)
                          THEN next_oid + 1 ELSE next_oid
           /\ lastSaves' = h.saves
           /\ inQueue' = h.sends
           /\ inPc' = IF h.raised THEN "done"
                      ELSE IF Len(h.sends) > 0 THEN "send" ELSE "recv"
           /\ inExit' = IF h.raised THEN "error" ELSE inExit
    /\ inLog' = Append(inLog, message)
    /\ lastSent' = << >>
    /\ UNCHANGED << DEFAULT_CONFIG, conn, handlerVars, envVars, outVars, upSent >>

\* InboundSend with the confirmation of a save written to the websocket
\* instead of the upstream session
InboundSend_ConfirmsToClient ==
    /\ inPc = "send"
    /\ IF ~upstreamDown
       THEN /\ IF Len(lastSaves) > 0
               THEN /\ toClient' = Append(toClient, [ text |-> Head(inQueue).input ])
                    /\ UNCHANGED upSent
               ELSE /\ upSent' = Append(upSent, Head(inQueue))
                    /\ UNCHANGED toClient
            /\ lastSent' = Append(lastSent, Head(inQueue))
            /\ inQueue' = Tail(inQueue)
            /\ inPc' = IF Len(inQueue) > 1 THEN "send" ELSE "recv"
            /\ UNCHANGED inExit
       ELSE /\ inPc' = "done"
            /\ inExit' = "error"
            /\ inQueue' = << >>
            /\ UNCHANGED << upSent, lastSent, toClient >>
    /\ UNCHANGED << globalVars, handlerVars, envVars, inLog, lastSaves, nMsgs,
                    outPc, outQueue, outExit, outLog, outEmitted, nResps >>

\* session.send returns or raises (lines 132, 200, 206, 210)
InboundSend ==
    /\ inPc = "send"
    /\ IF ~upstreamDown
       THEN /\ upSent' = Append(upSent, Head(inQueue))
            /\ lastSent' = Append(lastSent, Head(inQueue))
            /\ inQueue' = Tail(inQueue)
            /\ inPc' = IF Len(inQueue) > 1 THEN "send" ELSE "recv"
            /\ UNCHANGED inExit
       ELSE /\ inPc' = "done"
            /\ inExit' = "error"
            /\ inQueue' = << >>
            /\ UNCHANGED << upSent, lastSent >>
    /\ UNCHANGED << globalVars, handlerVars, envVars, outVars, inLog, lastSaves, nMsgs >>

\* lines 208-209: receive_text raises WebSocketDisconnect
InboundDisconnect ==
    /\ inPc = "recv"
    /\ clientGone
    /\ inPc' = "done"
    /\ inExit' = "disconnect"
    /\ UNCHANGED << globalVars, handlerVars, envVars, outVars, upSent,
                    inQueue, inLog, lastSaves, lastSent, nMsgs >>

(***************************************************************************)
(* send_to_client                                                          *)
(***************************************************************************)
\* lines 216-236: the next response arrives, from the iterator of the current
\* turn or, when that one is exhausted, from the one session.receive() gives
\* next (an exhausted iterator changes nothing else)
OutboundResponse(response) ==
    /\ hPc = "gather"
    /\ outPc = "recv"
    /\ ~upstreamDown
    /\ nResps < MaxResponses
    /\ nResps' = nResps + 1
    /\ outLog' = Append(outLog, response)
    /\ outQueue' = ResponseFrames(response)
    /\ outEmitted' = << >>
    /\ outPc' = IF Len(ResponseFrames(response)) > 0 THEN "emit" ELSE "recv"
    /\ UNCHANGED << globalVars, handlerVars, envVars, inVars, upSent, toClient, outExit >>

\* websocket.send_json returns or raises (lines 225, 231, 236, 238)
OutboundEmit ==
    /\ outPc = "emit"
    /\ IF ~clientGone
       THEN /\ toClient' = Append(toClient, Head(outQueue))
            /\ outEmitted' = Append(outEmitted, Head(outQueue))
            /\ outQueue' = Tail(outQueue)
            /\ outPc' = IF Len(outQueue) > 1 THEN "emit" ELSE "recv"
            /\ UNCHANGED outExit
       ELSE /\ outPc' = "done"
            /\ outExit' = "client"
            /\ outQueue' = << >>
            /\ UNCHANGED << toClient, outEmitted >>
    /\ UNCHANGED << globalVars, handlerVars, envVars, inVars, upSent, outLog, nResps >>

\* the except clause of send_to_client reporting the exception to the client
OutboundRecvError_ReportsToClient ==
    /\ outPc = "recv"
    /\ upstreamDown
    /\ outPc' = "done"
    /\ outExit' = "upstream"
    /\ toClient' = Append(toClient, [ error |-> "upstream" ])
    /\ UNCHANGED << globalVars, handlerVars, envVars, inVars, upSent,
                    outQueue, outLog, outEmitted, nResps >>

\* lines 238-239: reading from the upstream session raises
OutboundRecvError ==
    /\ outPc = "recv"
    /\ upstreamDown
    /\ outPc' = "done"
    /\ outExit' = "upstream"
    /\ UNCHANGED << globalVars, handlerVars, envVars, inVars, upSent,
                    outQueue, toClient, outLog, outEmitted, nResps >>

(***************************************************************************)
(* Specifications                                                          *)
(***************************************************************************)
Next ==
    \/ \E find_ok \in BOOLEAN : Accept(find_ok)
    \/ \E ok \in BOOLEAN : Connect(ok)
    \/ Greet
    \/ \E ok \in BOOLEAN : SessionExit(ok)
    \/ ClientGoes
    \/ UpstreamFails
    \/ \E message \in Messages, insert_ok \in BOOLEAN : InboundMessage(message, insert_ok)
    \/ InboundSend
    \/ InboundDisconnect
    \/ \E response \in Responses : OutboundResponse(response)
    \/ OutboundEmit
    \/ OutboundRecvError

Spec == Init /\ [][Next]_vars

\* The steps the program takes by itself: an awaited call completes, one way
\* or the other.  What the client and the upstream service do is not forced.
HandlerStep ==
    \/ \E ok \in BOOLEAN : Connect(ok)
    \/ Greet
    \/ \E ok \in BOOLEAN : SessionExit(ok)
    \/ InboundSend
    \/ InboundDisconnect
    \/ OutboundEmit
    \/ OutboundRecvError

FairSpec == Spec /\ WF_vars(HandlerStep)

\* The classifier on its own: one connection without failures whose first
\* text frame is any text of ClassifierTexts.
TextMessage(text) == [ json |-> "object", value |-> [ text |-> text ] ]

ClassifyText(text, insert_ok) ==
    /\ inLog = << >>
    /\ InboundMessage(TextMessage(text), insert_ok)

ClassifierNext ==
    \/ Accept(TRUE)
    \/ Connect(TRUE)
    \/ Greet
    \/ \E text \in ClassifierTexts, insert_ok \in BOOLEAN : ClassifyText(text, insert_ok)
    \/ InboundSend

ClassifierSpec == Init /\ [][ClassifierNext]_vars

\* The start of a connection on its own: the store already holds records,
\* and the session id of the new connection is any of StoredSessions, so
\* that load_memories finds from none to more than LoadLimit of them.
StoredSessions == { "a", "b", "c" }

\* a document as save_memory stored it, the i-th of the collection
StoredDoc(i, sid) ==
    [ id          |-> i,
      session_id  |-> sid,
      memory_text |-> "m" \o ToString(i),
      context     |-> "remember m" \o ToString(i),
      created_at  |-> i,
      updated_at  |-> i ]

\* n documents; with k > 1 every k-th belongs to session "b", the others
\* to session "a"
StoreOf(n, k) ==
    [ i \in 1..n |-> StoredDoc(i, IF k > 1 /\ i % k = 0 THEN "b" ELSE "a") ]

PreloadedStores == { StoreOf(n, k) : n \in 0..MaxStored, k \in 1..3 }

StartInit ==
    /\ memory_collection \in PreloadedStores
    /\ next_oid = Len(memory_collection) + 1
    /\ DEFAULT_CONFIG = DEFAULT_CONFIG_Init
    /\ conn = 0
    /\ hPc = "idle"
    /\ session_id = ""
    /\ memories = << >>
    /\ config = DEFAULT_CONFIG_Init
    /\ sessionState = "none"
    /\ wsState = "none"
    /\ clientGone = FALSE
    /\ upstreamDown = FALSE
    /\ inPc = "idle"
    /\ inQueue = << >>
    /\ inExit = ""
    /\ outPc = "idle"
    /\ outQueue = << >>
    /\ outExit = ""
    /\ loadOk = TRUE
    /\ upSent = << >>
    /\ toClient = << >>
    /\ inLog = << >>
    /\ lastSaves = << >>
    /\ lastSent = << >>
    /\ outLog = << >>
    /\ outEmitted = << >>
    /\ nMsgs = 0
    /\ nResps = 0

StartNext ==
    \/ \E sid \in StoredSessions, find_ok \in BOOLEAN : StartConnection(sid, find_ok)
    \/ \E ok \in BOOLEAN : Connect(ok)
    \/ Greet
    \/ UpstreamFails
    \/ \E message \in Messages, insert_ok \in BOOLEAN : InboundMessage(message, insert_ok)
    \/ InboundSend

StartSpec == StartInit /\ [][StartNext]_vars

\* The save with its duration.  memory_collection.insert_one is a call of
\* the synchronous driver made on the event loop's thread: from the call to
\* its return no other coroutine of the process runs.  Under Spec the two
\* ends are one step; here they are two, with inPc = "save" in between.
EventLoopBlocked == inPc = "save"

IsMemoryText(message) ==
    /\ message.json = "object"
    /\ "text" \in DOMAIN message.value
    /\ Classify(message.value.text).is_memory

\* lines 186-196, 106-129 and 57-65: receive_text returns a text with a
\* memory intent and the relay gets to the call of insert_one
InboundSaveCall(message) ==
    /\ hPc = "gather"
    /\ inPc = "recv"
    /\ ~clientGone
    /\ nMsgs < MaxFrames
    /\ IsMemoryText(message)
    /\ nMsgs' = nMsgs + 1
    /\ inLog' = Append(inLog, message)
    /\ inPc' = "save"
    /\ inQueue' = << >>
    /\ lastSaves' = << >>
    /\ lastSent' = << >>
    /\ UNCHANGED << globalVars, handlerVars, envVars, outVars, upSent, inExit >>

\* lines 65-132: insert_one returns or raises, and the relay gets to the
\* send of the confirmation
InboundSaveReturn(insert_ok) ==
    /\ inPc = "save"
    /\ \E h \in { handle_message(memory_collection, next_oid, session_id,
                                  inLog[Len(inLog)], insert_ok) } :
           /\ memory_collection' = h.collection
           /\ next_oid' = IF Len(h.collection) > Len(memory_collection)
                          THEN next_oid + 1 ELSE next_oid
           /\ lastSaves' = h.saves
           /\ inQueue' = h.sends
           /\ inPc' = IF h.raised THEN "done"
                      ELSE IF Len(h.sends) > 0 THEN "send" ELSE "recv"
           /\ inExit' = IF h.raised THEN "error" ELSE inExit
    /\ UNCHANGED << DEFAULT_CONFIG, conn, handlerVars, envVars, outVars, upSent,
                    inLog, lastSent, nMsgs >>

\* a message that makes no call of the store
InboundOther(message, insert_ok) ==
    /\ ~IsMemoryText(message)
    /\ InboundMessage(message, insert_ok)

\* the steps of send_to_client, which need the event loop
OutboundRuns ==
    /\ ~EventLoopBlocked
    /\ \/ \E response \in Responses : OutboundResponse(response)
       \/ OutboundEmit
       \/ OutboundRecvError

\* the steps of receive_from_client
InboundRuns ==
    \/ \E message \in Messages, insert_ok \in BOOLEAN : InboundOther(message, insert_ok)
    \/ \E message \in Messages : InboundSaveCall(message)
    \/ \E insert_ok \in BOOLEAN : InboundSaveReturn(insert_ok)
    \/ InboundSend
    \/ InboundDisconnect

BlockingNext ==
    \/ \E find_ok \in BOOLEAN : Accept(find_ok)
    \/ \E ok \in BOOLEAN : Connect(ok)
    \/ Greet
    \/ \E ok \in BOOLEAN : SessionExit(ok)
    \/ ClientGoes
    \/ UpstreamFails
    \/ InboundRuns
    \/ OutboundRuns

BlockingSpec == Init /\ [][BlockingNext]_vars

TypeOK ==
    /\ hPc \in { "idle", "connect", "greet", "gather", "returned", "closed" }
    /\ inPc \in { "idle", "recv", "save", "send", "done" }
    /\ outPc \in { "idle", "recv", "emit", "done" }
    /\ sessionState \in { "none", "open", "closed" }
    /\ wsState \in { "none", "open", "closed" }

(***************************************************************************)
(* Properties                                                              *)
(***************************************************************************)
InboundRunning == inPc \in { "recv", "send" }
OutboundRunning == outPc \in { "recv", "emit" }

\* the handler closed the websocket, or returned and so released it
ConnectionEnded == wsState = "closed" \/ hPc = "returned"

TornDown ==
    /\ ~InboundRunning
    /\ ~OutboundRunning
    /\ sessionState = "closed"
    /\ ConnectionEnded

RelayExited == hPc = "gather" /\ (inPc = "done" \/ outPc = "done")

LastMessage == inLog[Len(inLog)]

IsTextFrame(m) == m.json = "object" /\ "text" \in DOMAIN m.value

IsMediaFrame(m) ==
    m.json = "object" /\ "text" \notin DOMAIN m.value
    /\ "data" \in DOMAIN m.value /\ "mime_type" \in DOMAIN m.value

IsNeitherShape(m) == m.json = "object" /\ ~IsTextFrame(m) /\ ~IsMediaFrame(m)

IsUnparseable(m) == m.json = "invalid"

\* this step is receive_from_client taking a message off the websocket
ReceivesMessage == nMsgs' = nMsgs + 1

\* the messages of the last frame that were sent upstream or still will be
LastFrameSends == lastSent \o inQueue

\* C1: once either relay has exited, the handler by itself gets to the state
\* where no relay runs, the upstream session is closed and the client
\* connection is closed.
C1_RelayExitTearsDown == RelayExited ~> TornDown

\* C2 as claimed: a malformed frame, unparseable or of neither shape, is
\* dropped and the Inbound Relay goes on to the next frame.
C2_MalformedFrameDropped ==
    [][ (ReceivesMessage /\ (IsUnparseable(LastMessage') \/ IsNeitherShape(LastMessage')))
        => /\ inPc' = "recv"
           /\ UNCHANGED << upSent, memory_collection, hPc, sessionState, wsState >> ]_vars

\* C2 as amended: a frame that is a JSON object of neither shape is dropped,
\* nothing but the history changes and the Inbound Relay waits for the next
\* frame; an unparseable frame ends the Inbound Relay.
C2_NeitherShapeDroppedUnparseableEnds ==
    [][ /\ (ReceivesMessage /\ IsNeitherShape(LastMessage'))
           => /\ inPc' = "recv"
              /\ inQueue' = << >>
              /\ UNCHANGED << upSent, memory_collection, hPc, sessionState, wsState,
                              inExit, outPc, outQueue, toClient >>
        /\ (ReceivesMessage /\ IsUnparseable(LastMessage'))
           => /\ inPc' = "done"
              /\ inExit' = "error"
              /\ UNCHANGED << upSent, memory_collection, hPc, sessionState, wsState >> ]_vars

\* a frame of neither shape was dropped, and the text frame after it went
\* upstream
C2_Witness ==
    /\ Len(inLog) = 2
    /\ IsNeitherShape(inLog[1])
    /\ IsTextFrame(inLog[2])
    /\ inPc = "recv"
    /\ Len(lastSent) = 1
    /\ Len(upSent) = 2

\* C3: a text frame with a memory intent makes exactly one save_memory call,
\* for the session of this connection, and exactly one upstream message, the
\* confirmation; the text of the frame itself never goes upstream.
C3_MemoryIntentSavedAndConfirmed ==
    /\ (Len(inLog) > 0 /\ IsTextFrame(LastMessage)
        /\ Classify(LastMessage.value.text).is_memory)
       => /\ Len(lastSaves) = 1
          /\ lastSaves[1].session_id = session_id
          /\ lastSaves[1].context = LastMessage.value.text
          /\ Len(LastFrameSends) <= 1
          /\ (inPc = "recv" => Len(lastSent) = 1)
          /\ \A i \in 1..Len(LastFrameSends) :
                /\ LastFrameSends[i].kind = "text"
                /\ LastFrameSends[i].end_of_turn
                /\ LastFrameSends[i].input =
                       "Memory saved successfully! " \o lastSaves[1].result.message
                /\ LastFrameSends[i].input # LastMessage.value.text
    /\ \A i \in 1..Len(upSent) : \A t \in Texts :
          Classify(t).is_memory => ~(upSent[i].kind = "text" /\ upSent[i].input = t)

C3_Witness ==
    /\ Len(inLog) > 0
    /\ IsTextFrame(LastMessage)
    /\ Classify(LastMessage.value.text).is_memory
    /\ inPc = "recv"
    /\ Len(lastSent) = 1
    /\ Len(memory_collection) > 0

\* C4: a text frame without any trigger phrase creates no memory record and
\* its text goes upstream unchanged, exactly once, as an end-of-turn input.
C4_PlainTextForwardedOnce ==
    /\ (Len(inLog) > 0 /\ IsTextFrame(LastMessage)
        /\ ~Classify(LastMessage.value.text).is_memory)
       => /\ lastSaves = << >>
          /\ Len(LastFrameSends) <= 1
          /\ (inPc = "recv" => Len(lastSent) = 1)
          /\ \A i \in 1..Len(LastFrameSends) :
                LastFrameSends[i] = [ kind |-> "text",
                                      input |-> LastMessage.value.text,
                                      end_of_turn |-> TRUE ]
    /\ \A i \in 1..Len(memory_collection) :
          Classify(memory_collection[i].context).is_memory

C4_Witness ==
    /\ Len(inLog) > 0
    /\ IsTextFrame(LastMessage)
    /\ ~Classify(LastMessage.value.text).is_memory
    /\ inPc = "recv"
    /\ lastSent = << [ kind |-> "text", input |-> LastMessage.value.text,
                       end_of_turn |-> TRUE ] >>

\* C5: when the upstream session cannot be opened the handler closes the
\* websocket and does nothing else: no greeting, no relay, no frame read or
\* written.
C5_OpenFailureOnlyCloses ==
    (sessionState = "none" /\ hPc \notin { "idle", "connect" })
    => /\ hPc = "closed"
       /\ wsState = "closed"
       /\ upSent = << >>
       /\ inPc = "idle"
       /\ outPc = "idle"
       /\ inLog = << >>
       /\ outLog = << >>
       /\ toClient = << >>

C5_Witness == hPc = "closed" /\ sessionState = "none" /\ conn > 0

(***************************************************************************)
(* Properties of send_to_client                                            *)
(***************************************************************************)
LastResponse == outLog[Len(outLog)]

IsInterruptedFrame(f) == "interrupted" \in DOMAIN f

IsPartFrame(f) == ~IsInterruptedFrame(f)

SignalsInterruption(r) == r.server_content /\ r.interrupted

\* every frame of the last response has been written
ResponseHandled == outPc = "recv" \/ (outPc = "done" /\ outExit = "upstream")

NumInterrupted(frames) ==
    Cardinality({ i \in 1..Len(frames) : IsInterruptedFrame(frames[i]) })

\* the number of audio and text frames the parts of a response call for
NumPartFrames(r) ==
    IF r.server_content /\ r.model_turn
    THEN Cardinality({ i \in 1..Len(r.parts) :
                          r.parts[i].inline_data /\ Len(r.parts[i].data) > 0 })
         + Cardinality({ i \in 1..Len(r.parts) : Len(r.parts[i].text) > 0 })
    ELSE 0

IsPrefix(a, b) == Len(a) <= Len(b) /\ SubSeq(b, 1, Len(a)) = a

\* C6: after the upstream session has failed, the client keeps the frames
\* it was sent, no further frame is written to it, and the client connection
\* gets closed.
C6_UpstreamFailureClosesClient ==
    /\ [][ conn' = conn => IsPrefix(toClient, toClient') ]_vars
    /\ [][ (outExit = "upstream" /\ conn' = conn) => toClient' = toClient ]_vars
    /\ (hPc = "gather" /\ outExit = "upstream") ~> ConnectionEnded

\* C7: a response that signals interruption gets exactly one interrupted
\* frame, written after all the audio and text frames of that response; a
\* response that does not signal it gets none.
C7_OneInterruptedFrameAfterParts ==
    Len(outLog) > 0 =>
       /\ NumInterrupted(outEmitted) <= 1
       /\ ~SignalsInterruption(LastResponse) => NumInterrupted(outEmitted) = 0
       /\ (SignalsInterruption(LastResponse) /\ ResponseHandled)
          => NumInterrupted(outEmitted) = 1
       /\ \A i \in 1..Len(outEmitted) :
             IsInterruptedFrame(outEmitted[i])
             => /\ i = Len(outEmitted)
                /\ outQueue = << >>
                /\ i = NumPartFrames(LastResponse) + 1

C7_Witness ==
    /\ Len(outLog) > 0
    /\ SignalsInterruption(LastResponse)
    /\ NumPartFrames(LastResponse) = 2
    /\ outPc = "recv"
    /\ Len(outEmitted) = 3
    /\ IsInterruptedFrame(outEmitted[3])

\* the audio and text frames of one part, of the parts of one response and
\* of a sequence of responses, in the order C8 asks for
C8_FramesOfPart(part) ==
    (IF part.inline_data /\ Len(part.data) > 0
     THEN << [ audio |-> b64encode(part.data) ] >> ELSE << >>)
    \o (IF Len(part.text) > 0 THEN << [ text |-> part.text ] >> ELSE << >>)

RECURSIVE C8_FramesOfParts(_)
C8_FramesOfParts(parts) ==
    IF Len(parts) = 0 THEN << >>
    ELSE C8_FramesOfParts(SubSeq(parts, 1, Len(parts) - 1))
         \o C8_FramesOfPart(parts[Len(parts)])

RECURSIVE C8_FramesOfResponses(_)
C8_FramesOfResponses(log) ==
    IF Len(log) = 0 THEN << >>
    ELSE LET r == log[Len(log)]
         IN  C8_FramesOfResponses(SubSeq(log, 1, Len(log) - 1))
             \o (IF r.server_content /\ r.model_turn
                 THEN C8_FramesOfParts(r.parts) ELSE << >>)

\* C8: the audio and text frames written to the client are, one frame per
\* part payload, in the order of the parts within a response and of the
\* responses as the upstream session yielded them.
C8_FramesInPartAndTurnOrder ==
    LET written  == SelectSeq(toClient, IsPartFrame)
        pending  == SelectSeq(outQueue, IsPartFrame)
        expected == C8_FramesOfResponses(outLog)
    IN  /\ IsPrefix(written, expected)
        /\ outExit # "client" => written \o pending = expected

C8_Witness ==
    /\ Len(outLog) = 2
    /\ outPc = "recv"
    /\ NumPartFrames(outLog[1]) = 2
    /\ NumPartFrames(outLog[2]) = 1
    /\ Len(SelectSeq(toClient, IsPartFrame)) = 3

(***************************************************************************)
(* Properties of the memory store adapter                                  *)
(***************************************************************************)
LastIsMemoryText ==
    /\ Len(inLog) > 0
    /\ IsTextFrame(LastMessage)
    /\ Classify(LastMessage.value.text).is_memory

\* C9: the success confirmation goes upstream only when save_memory returned
\* success; on failure the message of the failure result goes instead; either
\* way the Inbound Relay goes on.
C9_FailedSaveNotConfirmed ==
    (LastIsMemoryText /\ Len(lastSaves) = 1) =>
       /\ \A i \in 1..Len(LastFrameSends) :
             /\ startswith(LastFrameSends[i].input, "Memory saved successfully!")
                <=> lastSaves[1].result.success
             /\ ~lastSaves[1].result.success
                => LastFrameSends[i].input = lastSaves[1].result.message
       /\ (inPc = "done" /\ inExit = "error") => upstreamDown

\* C10: a failing store stays inside the adapter.  A failing save returns
\* success = FALSE with the generic message and no memory_id, leaves the
\* collection as it was and the relay and the connection running; a failing
\* load returns the empty list and the handler goes on to connect.
C10_StoreFailureContained ==
    [][ /\ (ReceivesMessage /\ Len(lastSaves') = 1 /\ ~lastSaves'[1].result.success)
           => /\ DOMAIN lastSaves'[1].result = { "success", "message" }
              /\ lastSaves'[1].result.message = "Sorry, I couldn't save that memory"
              /\ memory_collection' = memory_collection
              /\ inPc' = "send"
              /\ UNCHANGED << hPc, sessionState, wsState, outPc >>
        /\ (conn' = conn + 1 /\ ~loadOk')
           => /\ memories' = << >>
              /\ memory_collection' = memory_collection
              /\ hPc' = "connect"
              /\ wsState' = "open" ]_vars

\* in a connection whose load failed, a save failed too and the relay has
\* sent its message and waits for the next frame
C10_Witness ==
    /\ ~loadOk
    /\ LastIsMemoryText
    /\ Len(lastSaves) = 1
    /\ ~lastSaves[1].result.success
    /\ inPc = "recv"
    /\ Len(lastSent) = 1
    /\ hPc = "gather"

(***************************************************************************)
(* Properties of the classifier in process_memory_request                  *)
(***************************************************************************)
\* the first trigger of the list that occurs in the text, whatever its case
FirstTrigger(text) ==
    LET hits == { i \in 1..Len(memory_keywords) : InStr(memory_keywords[i], lower(text)) }
    IN  memory_keywords[CHOOSE i \in hits : \A j \in hits : i <= j]

ContainsTrigger(text) ==
    \E i \in 1..Len(memory_keywords) : InStr(memory_keywords[i], lower(text))

\* the text after the first occurrence of its first trigger, whatever the
\* case of that occurrence
AfterFirstTrigger(text) ==
    LET k   == FirstTrigger(text)
        occ == Occurrences(lower(text), k)
        i   == CHOOSE j \in occ : \A l \in occ : j <= l
    IN  SubSeq(text, i + Len(k), Len(text))

Connectors == << "that", "this", "to" >>

\* p starts with the connector c as a word of its own
StartsWithWord(p, c) ==
    /\ startswith(lower(p), c)
    /\ (Len(p) = Len(c) \/ IsSpace(CharAt(p, Len(c) + 1)))

\* the payloads C11 allows for a text with a trigger: the trimmed text after
\* the trigger, less its leading connector when it has one (taken as a word
\* or as a prefix), and only that one
AllowedPayloads(text) ==
    LET p0 == strip(AfterFirstTrigger(text))
        asWord   == IF \E i \in 1..3 : StartsWithWord(p0, Connectors[i])
                    THEN LET c == Connectors[CHOOSE i \in 1..3 : StartsWithWord(p0, Connectors[i])]
                         IN  strip(DropChars(p0, Len(c)))
                    ELSE p0
        asPrefix == IF \E i \in 1..3 : startswith(lower(p0), Connectors[i])
                    THEN LET c == Connectors[CHOOSE i \in 1..3 :
                                                /\ startswith(lower(p0), Connectors[i])
                                                /\ \A j \in 1..(i - 1) :
                                                      ~startswith(lower(p0), Connectors[j])]
                         IN  strip(DropChars(p0, Len(c)))
                    ELSE p0
    IN  { asWord, asPrefix }

\* for each text of ClassifierTexts, evaluated once
ClaimedTexts ==
    [ t \in ClassifierTexts |->
        [ has_trigger |-> ContainsTrigger(t),
          payloads    |-> IF ContainsTrigger(t) THEN AllowedPayloads(t) ELSE {},
          ends_with_trigger |->
              ContainsTrigger(t) /\ AfterFirstTrigger(t) = "" ] ]

\* the classifier has been applied to the text of the first frame
Classified == Len(inLog) = 1 /\ IsTextFrame(inLog[1])

\* C11: a text that contains a trigger phrase, in whatever case, is reported
\* as a memory intent, and its payload is the text after the first occurrence
\* of the first trigger of the list, trimmed, less at most one leading
\* connector.
C11_PayloadAfterFirstTrigger ==
    (Classified /\ ClaimedTexts[inLog[1].value.text].has_trigger)
    => /\ Len(lastSaves) = 1
       /\ lastSaves[1].memory_text \in ClaimedTexts[inLog[1].value.text].payloads

\* C12: when nothing follows the trigger in the text, the payload is the
\* empty string, save_memory is called with it, and when the store accepts
\* the insert the collection holds a record of this session with the empty
\* memory text.
C12_EmptyPayloadSaved ==
    (Classified /\ ClaimedTexts[inLog[1].value.text].ends_with_trigger)
    => /\ Len(lastSaves) = 1
       /\ lastSaves[1].memory_text = ""
       /\ lastSaves[1].session_id = session_id
       /\ lastSaves[1].result.success
          => \E i \in 1..Len(memory_collection) :
                /\ memory_collection[i].session_id = session_id
                /\ memory_collection[i].memory_text = ""
                /\ memory_collection[i].context = inLog[1].value.text

(***************************************************************************)
(* Properties of the start of a connection                                 *)
(***************************************************************************)
Min(a, b) == IF a < b THEN a ELSE b

\* the positions in the store of the records of session sid
RecordsOf(store, sid) == { i \in 1..Len(store) : store[i].session_id = sid }

\* the position of the r-th most recent record of session sid
NthMostRecent(store, sid, r) ==
    CHOOSE p \in RecordsOf(store, sid) :
        Cardinality({ q \in RecordsOf(store, sid) :
                         store[q].created_at > store[p].created_at }) = r - 1

RECURSIVE BulletLines(_, _, _, _)
\* one line per record, from the r-th to the k-th most recent
BulletLines(store, sid, r, k) ==
    IF r > k THEN ""
    ELSE "\n- " \o store[NthMostRecent(store, sid, r)].memory_text
         \o BulletLines(store, sid, r + 1, k)

\* the number of memories a load of session sid gives
NumLoaded(store, sid, ok) ==
    IF ok THEN Min(LoadLimit, Cardinality(RecordsOf(store, sid))) ELSE 0

\* the handler has just built the configuration and waits for connect
ConfigBuilt == hPc = "connect"

\* C13: without loaded memories the instruction is the base instruction;
\* with n of them it is the base instruction, then the block of the
\* min(5, n) most recent memory texts of the session, most recent first;
\* the rest of the configuration is the default one and DEFAULT_CONFIG stays
\* as it was.
C13_InstructionAugmented ==
    /\ DEFAULT_CONFIG = DEFAULT_CONFIG_Init
    /\ ConfigBuilt =>
          LET n == NumLoaded(memory_collection, session_id, loadOk)
              k == Min(5, n)
          IN  /\ Len(memories) = n
              /\ config.response_modalities = DEFAULT_CONFIG_Init.response_modalities
              /\ config.tools = DEFAULT_CONFIG_Init.tools
              /\ n = 0 => config.system_instruction = BaseInstruction
              /\ n > 0 =>
                    /\ config.system_instruction =
                          BaseInstruction \o "\n\nHere are things I should remember:"
                          \o BulletLines(memory_collection, session_id, 1, k)
                    /\ startswith(config.system_instruction, BaseInstruction)
                    /\ Len(config.system_instruction) > Len(BaseInstruction)

\* more than five memories were loaded and the configuration is built
C13_Witness ==
    /\ ConfigBuilt
    /\ Len(memories) > 5
    /\ config.system_instruction # BaseInstruction

(***************************************************************************)
(* Properties of the relays                                                *)
(***************************************************************************)
\* the send upstream was refused and ended the Inbound Relay
InboundSendFailed == inPc = "done" /\ inExit = "error"

\* C14: a frame with data and mime_type and no text makes no save_memory
\* call and leaves the collection as it is, whatever its data spells; it goes
\* upstream once, as it is, as a realtime input (end_of_turn not set).
C14_MediaForwardedUnclassified ==
    /\ [][ (ReceivesMessage /\ IsMediaFrame(LastMessage'))
           => /\ memory_collection' = memory_collection
              /\ lastSaves' = << >>
              /\ inPc' = "send" ]_vars
    /\ [] ( (Len(inLog) > 0 /\ IsMediaFrame(LastMessage))
            => /\ lastSaves = << >>
               /\ InboundSendFailed \/ Len(LastFrameSends) = 1
               /\ inPc = "recv" => Len(lastSent) = 1
               /\ \A i \in 1..Len(LastFrameSends) :
                     /\ LastFrameSends[i].kind = "realtime"
                     /\ LastFrameSends[i].media = LastMessage.value
                     /\ ~LastFrameSends[i].end_of_turn )

\* a media frame whose data spells a keyword has gone upstream
C14_Witness ==
    /\ Len(inLog) > 0
    /\ IsMediaFrame(LastMessage)
    /\ Classify(LastMessage.value.data).is_memory
    /\ inPc = "recv"
    /\ Len(lastSent) = 1
    /\ lastSent[1].kind = "realtime"

\* the frame f is what the code derives from a part or from the interrupted
\* flag of the response r
DerivedFrom(f, r) ==
    /\ r.server_content
    /\ \/ /\ DOMAIN f = { "audio" }
          /\ r.model_turn
          /\ \E i \in 1..Len(r.parts) :
                r.parts[i].inline_data /\ f.audio = b64encode(r.parts[i].data)
       \/ /\ DOMAIN f = { "text" }
          /\ r.model_turn
          /\ \E i \in 1..Len(r.parts) : f.text = r.parts[i].text
       \/ /\ DOMAIN f = { "interrupted" }
          /\ f.interrupted = TRUE
          /\ r.interrupted

ARelayFailed == inExit = "error" \/ outExit # ""

\* C15: whatever has failed, every frame written to the client is an audio
\* frame, a text frame or the interrupted frame, and comes from a response
\* read from the upstream session in this connection.
C15_OnlyUpstreamFramesToClient ==
    \A i \in 1..Len(toClient) :
        /\ DOMAIN toClient[i] \in { { "audio" }, { "text" }, { "interrupted" } }
        /\ \E j \in 1..Len(outLog) : DerivedFrom(toClient[i], outLog[j])

\* both relays have ended on a failure, after frames were written
C15_Witness ==
    /\ inExit = "error"
    /\ outExit = "upstream"
    /\ Len(toClient) > 0

\* a write to the upstream session is awaited by the handler (the greeting)
\* or by the Inbound Relay
GreetingInFlight == hPc = "greet"
InboundWriteInFlight == inPc = "send"

\* a step of the Inbound Relay, of the Outbound Relay
InboundStep == InboundRunning /\ inVars' # inVars
OutboundStep == OutboundRunning /\ outVars' # outVars

\* C16: within a connection the upstream session is written only by the
\* handler's greeting, before either relay has started, and by the Inbound
\* Relay; the client connection only by the Outbound Relay; the Outbound
\* Relay's steps write nothing upstream and the Inbound Relay's nothing to
\* the client; and the greeting and a send of the Inbound Relay are never
\* awaited at the same time.
C16_SingleWriter ==
    /\ [][ conn' = conn =>
             /\ upSent' # upSent
                => \/ GreetingInFlight /\ inPc = "idle" /\ outPc = "idle"
                   \/ InboundWriteInFlight /\ outVars' = outVars
             /\ toClient' # toClient
                => outPc = "emit" /\ inVars' = inVars /\ upSent' = upSent
             /\ OutboundStep => upSent' = upSent
             /\ InboundStep => toClient' = toClient ]_vars
    /\ [] ( /\ ~(GreetingInFlight /\ InboundWriteInFlight)
            /\ GreetingInFlight => (inPc = "idle" /\ outPc = "idle")
            /\ InboundWriteInFlight => Len(inQueue) > 0 )

\* the Inbound Relay awaits a send upstream, after the greeting, while the
\* Outbound Relay awaits a write to the client
C16_Witness ==
    /\ InboundWriteInFlight
    /\ outPc = "emit"
    /\ Len(upSent) >= 2
    /\ Len(toClient) >= 1

\* the two greetings start with these words, and nothing else sent upstream
\* in this model does
IsGreetingInput(m) == m.kind = "text" /\ startswith(m.input, "Hello! I")

RelaysStarted == inPc # "idle" \/ outPc # "idle"

\* C17: once the session is open nothing is written to it before the
\* greeting; the relays start, and client frames are read and forwarded, only
\* after it; it is sent once; it names the number of memories loaded when
\* there is at least one and is the onboarding message when there is none.
C17_OneGreetingFirst ==
    /\ (RelaysStarted \/ Len(upSent) > 0 \/ Len(inLog) > 0)
       => /\ Len(upSent) >= 1
          /\ upSent[1].kind = "text"
          /\ upSent[1].end_of_turn
          /\ Len(memories) >= 1
             => upSent[1].input =
                   "Hello! I have " \o ToString(Len(memories))
                   \o " memories loaded from our previous conversations. How can I help you today?"
          /\ Len(memories) = 0
             => upSent[1].input =
                   "Hello! I'm ready to help. You can ask me to remember things by saying something like 'Remember that I like coffee'."
    /\ \A i \in 2..Len(upSent) : ~IsGreetingInput(upSent[i])
    /\ GreetingInFlight => (upSent = << >> /\ ~RelaysStarted /\ sessionState = "open")
    /\ hPc = "gather" => (Len(upSent) >= 1 /\ IsGreetingInput(upSent[1]))

\* memories were loaded, the greeting named their number, and a client
\* frame was forwarded after it
C17_Witness ==
    /\ hPc = "gather"
    /\ Len(memories) >= 2
    /\ Len(upSent) >= 2
    /\ IsGreetingInput(upSent[1])
    /\ Len(lastSent) = 1

(***************************************************************************)
(* Properties of the session identity                                      *)
(***************************************************************************)
\* the handler has loaded the memories of the current connection
Loaded == conn > 0

\* C19: no record of the store carries the session id of a connection that
\* has not been accepted yet, so every connection loads no memory, opens the
\* session with the base instruction and greets with the onboarding
\* message, whatever earlier connections have saved.
C19_LoadedMemoriesEmpty ==
    /\ \A i \in 1..Len(memory_collection) :
          /\ memory_collection[i].session_id # ToString(next_oid)
          /\ \E c \in 1..next_oid - 1 : memory_collection[i].session_id = ToString(c)
    /\ memories = << >>
    /\ config = DEFAULT_CONFIG_Init
    /\ config.system_instruction = BaseInstruction
    /\ \A i \in 1..Len(upSent) :
          IsGreetingInput(upSent[i])
          => upSent[i].input =
                "Hello! I'm ready to help. You can ask me to remember things by saying something like 'Remember that I like coffee'."

\* a second connection has been greeted while the store holds records that
\* the first connection saved
C19_Witness ==
    /\ conn = 2
    /\ hPc = "gather"
    /\ Len(upSent) >= 1
    /\ Len(memory_collection) >= 1
    /\ \A i \in 1..Len(memory_collection) : memory_collection[i].session_id # session_id

(***************************************************************************)
(* Properties of the scheduling of the two relays                          *)
(***************************************************************************)
\* the upstream session has something for the Outbound Relay: a response it
\* can read, or frames of a response it read that it has not written yet
UpstreamEventAvailable ==
    /\ hPc = "gather"
    /\ \/ outPc = "emit"
       \/ outPc = "recv" /\ ~upstreamDown /\ nResps < MaxResponses

\* the client has something for the Inbound Relay: a frame it can read, or a
\* send upstream it has not finished
ClientFrameAvailable ==
    /\ hPc = "gather"
    /\ \/ inPc = "send"
       \/ inPc = "recv" /\ ~clientGone /\ nMsgs < MaxFrames

\* C18: whenever the upstream session has an event for it, the Outbound
\* Relay can take its step, whatever the Inbound Relay is doing, a save to
\* the store included; and whenever the client has a frame for it, the
\* Inbound Relay can take its step, whatever the Outbound Relay waits for.
C18_RelaysDoNotBlockEachOther ==
    /\ UpstreamEventAvailable => ENABLED OutboundRuns
    /\ ClientFrameAvailable => ENABLED InboundRuns

====
